---- MODULE Spec2Model ----
(***************************************************************************)
(* Model of sdm-pack-web: the conversion of html-validator messages to     *)
(* review comments (src/lib/htmlValidator.ts), the inspection that runs    *)
(* the validator over the files of a site, the fetch goal executor and     *)
(* the earliest revision of the conversion (src/lib/html-validator.ts).    *)
(*                                                                         *)
(* Conventions.  A JavaScript object is a TLA+ record; a property whose    *)
(* value is undefined is a field that is absent from the record's DOMAIN.  *)
(* A file path is the sequence of its characters, so that endsWith is      *)
(* computed on the characters.  A promise is a record with a "state"       *)
(* field ("pending", "fulfilled", "rejected") and, once settled, a         *)
(* "value" or a "reason" field.                                            *)
(***************************************************************************)
EXTENDS Integers, Sequences, FiniteSets, TLC

VARIABLES
    arg,            \* HtmlValidatorMessagesToReviewCommentsArgs of the call
    pc,             \* state of the promise returned by the call ("idle" before the call)
    kept,           \* arg.messages.filter(hvFilter): the message each callback closes over
    calls,          \* the invocations of arg.siteToSource, in invocation order
    remaps,         \* the promise returned by each invocation of arg.siteToSource
    promises,       \* the promise returned by each async map callback
    settleOrder,    \* indices of the siteToSource promises in the order they settled
    resumed,        \* number of callbacks resumed after their await (job queue position)
    reason,         \* rejection reason of the first rejected callback promise
    result          \* the list the call resolved to

convVars == <<arg, pc, kept, calls, remaps, promises, settleOrder, resumed, reason, result>>

\* one execution of the goal executor returned by executeFetch
VARIABLES
    freg,           \* the FetchRegistration
    fconfig,        \* goalInvocation.configuration
    fpc,            \* position of the executor: "idle", "exchanging", "verifying", "returned"
    fexchanges,     \* the invocations of httpClient.exchange
    fexchange,      \* the promise returned by httpClient.exchange
    fverifies,      \* the invocations of the verify function
    fverified,      \* the promise returned by the verify function
    flog,           \* what was written to goalInvocation.progressLog
    fresult         \* the ExecuteGoalResult the executor resolved to

fetchVars == <<freg, fconfig, fpc, fexchanges, fexchange, fverifies, fverified, flog, fresult>>

\* one run of the inspection returned by runHtmlValidator
VARIABLES
    rarg,           \* RunHtmlValidatorOptions, the project and its site files
    rpc,            \* position of the inspection: "idle", "walking", "returned"
    rfiles,         \* position and outcome of the callback of each file
    rlog,           \* what was written to the progress log
    review          \* review.comments

runVars == <<rarg, rpc, rfiles, rlog, review>>

\* one application of a synchronous function of src/lib/html-validator.ts
VARIABLES
    pureIn,         \* its arguments
    pureDone,       \* whether it returned
    pureOut         \* what it returned

pureVars == <<pureIn, pureDone, pureOut>>

vars == <<convVars, fetchVars, runVars, pureVars>>

----------------------------------------------------------------------------
(* Bounds *)

\* longest message list of the concurrency specification
MaxMsgs == 3
\* most messages around the one message drawn from the full message domain
MaxContext == 1
\* longest message list of the specification with every path
MaxPathMsgs == 2
\* longest message list given to the functions of src/lib/html-validator.ts
MaxPureMsgs == 2
\* most files of the site
MaxFiles == 2

----------------------------------------------------------------------------
(* Generic helpers *)

Has(obj, k) == k \in DOMAIN obj

Min(S) == CHOOSE x \in S : \A y \in S : x <= y

\* all sequences over S of length at most n
RECURSIVE SeqsUpTo(_, _)
SeqsUpTo(S, n) ==
    IF n = 0 THEN {<<>>}
    ELSE LET shorter == SeqsUpTo(S, n - 1)
         IN shorter \cup {Append(s, x) : s \in {t \in shorter : Len(t) = n - 1}, x \in S}

\* String.prototype.endsWith on character sequences
endsWith(s, suffix) ==
    /\ Len(s) >= Len(suffix)
    /\ SubSeq(s, Len(s) - Len(suffix) + 1, Len(s)) = suffix

\* obj.k = src.f, where src.f may be undefined
Assign(obj, k, src, f) ==
    IF Has(src, f)
    THEN [x \in DOMAIN obj \cup {k} |-> IF x = k THEN src[f] ELSE obj[x]]
    ELSE [x \in DOMAIN obj \ {k} |-> obj[x]]

----------------------------------------------------------------------------
(* Pure functions of src/lib/htmlValidator.ts *)

DotCss == <<".", "c", "s", "s">>
DotSvg == <<".", "s", "v", "g">>

\* mutant: the location is recognised by its line instead of its extract
hasLocationByLine(m) == Has(m, "lastLine")

\* Test if message has location properties.
hasLocation(m) == Has(m, "extract") /\ m.extract # ""

\* mutant: every info message is dropped, warnings included
hvFilterDropsAllInfo(m) ==
    IF m.type = "info" THEN FALSE
    ELSE IF m.message = "Parse Error." THEN FALSE
    ELSE TRUE

\* mutant: the text is tested before the type, so that a warning with the
\* text of a parse error is dropped as well
hvFilterParseErrorFirst(m) ==
    IF m.message = "Parse Error." THEN FALSE
    ELSE IF m.type = "info"
    THEN IF Has(m, "subType") /\ m.subType = "warning" THEN TRUE ELSE FALSE
    ELSE TRUE

\* mutant: parse errors are not suppressed
hvFilterKeepsParseError(m) ==
    IF m.type = "info"
    THEN IF Has(m, "subType") /\ m.subType = "warning" THEN TRUE ELSE FALSE
    ELSE TRUE

\* Return false if HTML validator message is not considered an issue.
hvFilter(m) ==
    IF m.type = "info"
    THEN IF Has(m, "subType") /\ m.subType = "warning" THEN TRUE ELSE FALSE
    ELSE IF m.message = "Parse Error." THEN FALSE
    ELSE TRUE

\* Create SourceLocation object from source file path and message.
createSourceLocation(src, message) ==
    LET sourceLocation == [path |-> src, offset |-> 0, columnFrom1 |-> 0, lineFrom1 |-> 0]
    IN IF hasLocation(message)
       THEN Assign(Assign(Assign(sourceLocation,
                "columnFrom1", message, "lastColumn"),
                "lineFrom1", message, "lastLine"),
                "offset", message, "hiliteStart")
       ELSE sourceLocation

\* mutant: the suffixes are tested without their dot
subcategoryWithoutDot(path) ==
    IF endsWith(path, Tail(DotCss)) THEN "css"
    ELSE IF endsWith(path, Tail(DotSvg)) THEN "svg"
    ELSE "html"

\* const subcategory = ... in htmlValidatorMessagesToReviewComments
subcategoryOf(path) ==
    IF endsWith(path, DotCss) THEN "css"
    ELSE IF endsWith(path, DotSvg) THEN "svg"
    ELSE "html"

\* mutant: the severity follows the type instead of the subType
severityByType(m) == IF m.type = "info" THEN "warn" ELSE "error"

\* severity: ... in the object literal of the map callback
severityOf(m) == IF Has(m, "subType") /\ m.subType = "warning" THEN "warn" ELSE "error"

\* mutant: the comment carries the site location, not the awaited one
reviewCommentAtSite(m, sourceLocation, subcategory) ==
    [category |-> "html-validator",
     detail |-> m.message,
     severity |-> severityOf(m),
     sourceLocation |-> createSourceLocation(arg.path, m),
     subcategory |-> subcategory]

\* the object literal an async map callback returns after its await
reviewComment(m, sourceLocation, subcategory) ==
    [category |-> "html-validator",
     detail |-> m.message,
     severity |-> severityOf(m),
     sourceLocation |-> sourceLocation,
     subcategory |-> subcategory]

\* export const noOpSiteToSource = async s => s
noOpSiteToSource(s) == s

\* mutant: the values are collected in the order the remaps settled
promiseAllValuesAsSettled(ps) == [k \in 1..Len(ps) |-> ps[settleOrder[k]].value]

\* the array Promise.all resolves to: the values of its promises by index
promiseAllValues(ps) == [i \in 1..Len(ps) |-> ps[i].value]

\* mutant: only the length is tested
noMessagesByLength(a) == Has(a, "messages") /\ Len(a.messages) < 1

\* !arg.messages || arg.messages.length < 1
noMessages(a) == ~Has(a, "messages") \/ Len(a.messages) < 1

----------------------------------------------------------------------------
(* Inputs *)

NoFields == [k \in {} |-> 0]

Types == {"info", "error", "non-document-error"}
SubTypes == {NoFields, [subType |-> "warning"], [subType |-> "fatal"]}
Texts == {"Parse Error.", "what?", "Fatal Parse Error."}

\* location properties a message may carry; each may individually be undefined
Locations ==
    { NoFields,
      [hiliteStart |-> 2, lastColumn |-> 2, lastLine |-> 2],
      [extract |-> "", hiliteStart |-> 2, lastColumn |-> 2, lastLine |-> 2],
      [extract |-> "x", hiliteStart |-> 4, lastColumn |-> 5, lastLine |-> 6],
      [extract |-> "x"],
      [extract |-> "x", hiliteStart |-> 4],
      [extract |-> "x", lastColumn |-> 5, lastLine |-> 6] }

\* every combination of type, subType, text and location properties
WideMessages ==
    {[type |-> t, message |-> x] @@ s @@ l :
        t \in Types, x \in Texts, s \in SubTypes, l \in Locations}

\* the messages of src/test/htmlValidator.test.ts, and a parse error
TestMessages ==
    { [type |-> "error", message |-> "what?", extract |-> "x",
       hiliteStart |-> 0, lastColumn |-> 1, lastLine |-> 3],
      [type |-> "error", message |-> "huh?"],
      [type |-> "info", subType |-> "warning", message |-> "huh?", extract |-> "x",
       hiliteStart |-> 8, lastColumn |-> 7, lastLine |-> 6],
      [type |-> "info", message |-> "no?", extract |-> "x",
       hiliteStart |-> 2, lastColumn |-> 2, lastLine |-> 2],
      [type |-> "error", message |-> "Parse Error."] }

\* the messages that surround a message of the full domain: one that is
\* retained and one that is filtered out
ContextMessages ==
    { [type |-> "error", message |-> "what?", extract |-> "x",
       hiliteStart |-> 0, lastColumn |-> 1, lastLine |-> 3],
      [type |-> "info", message |-> "no?", extract |-> "x",
       hiliteStart |-> 2, lastColumn |-> 2, lastLine |-> 2] }

\* the lists that hold one message of the full domain and at most n others
WideLists(n) ==
    {<<>>} \cup
    {pre \o <<w>> \o post :
        w \in WideMessages,
        pre \in SeqsUpTo(ContextMessages, n),
        post \in SeqsUpTo(ContextMessages, n)} 

ChockHtml == <<"c", "h", "o", "c", "k", ".", "h", "t", "m", "l">>
ChockCss == <<"c", "h", "o", "c", "k", ".", "c", "s", "s">>
ChockSvg == <<"c", "h", "o", "c", "k", ".", "s", "v", "g">>
SiteChockHtml == <<"_", "s", "i", "t", "e", "/">> \o ChockHtml
DocChockHtml == <<"d", "o", "c", "/">> \o ChockHtml

Paths ==
    { ChockHtml, ChockCss, ChockSvg, SiteChockHtml,
      <<"a", ".", "x", "y", "z">>,
      <<"a", ".", "C", "S", "S">>,
      <<"a", ".", "S", "V", "G">>,
      <<"c", "s", "s">>,
      <<"s", "v", "g">>,
      DotCss,
      <<"a", ".", "c", "s", "s", ".", "s", "v", "g">>,
      <<"a", ".", "s", "v", "g", ".", "c", "s", "s">>,
      <<"a", ".", "c", "s", "s", "x">>,
      <<>> }

Mappers == {"noOpSiteToSource", "custom"}

\* the arguments of one call; messages may be undefined
Args(paths, lists) ==
    {[path |-> p, project |-> "project", siteToSource |-> s] : p \in paths, s \in Mappers}
    \cup
    {[messages |-> ms, path |-> p, project |-> "project", siteToSource |-> s] :
        ms \in lists, p \in paths, s \in Mappers}

\* what the caller-supplied siteToSource resolves its i-th invocation to
customSiteToSource(i, s) ==
    [path |-> DocChockHtml, offset |-> 10 * i, columnFrom1 |-> i + 2, lineFrom1 |-> i - 1]

----------------------------------------------------------------------------
(* State machine of one call of htmlValidatorMessagesToReviewComments *)

Pending == [state |-> "pending"]
Fulfilled(v) == [state |-> "fulfilled", value |-> v]
Rejected(r) == [state |-> "rejected", reason |-> r]
NoReason == [kind |-> "none"]
RemapError(i) == [kind |-> "siteToSource", call |-> i]
TypeError == [kind |-> "TypeError"]

\* mutant: a failed remap is caught and replaced by the site location
afterAwaitCaught(m, awaited, subcategory) ==
    IF awaited.state = "fulfilled"
    THEN Fulfilled(reviewComment(m, awaited.value, subcategory))
    ELSE Fulfilled(reviewComment(m, createSourceLocation(arg.path, m), subcategory))

\* an async map callback after its await: the awaited value goes into the
\* comment it returns, an awaited rejection is thrown and rejects its promise
afterAwait(m, awaited, subcategory) ==
    IF awaited.state = "fulfilled"
    THEN Fulfilled(reviewComment(m, awaited.value, subcategory))
    ELSE Rejected(awaited.reason)

\* mutant: a loop that awaits each remap before it turns to the next message
\* has invoked siteToSource once when it first waits
invokedBeforeAwaitOneAtATime(n) == IF n > 1 THEN 1 ELSE n

\* how many of the n map callbacks have invoked arg.siteToSource when the
\* call first waits: Array.prototype.map runs every async callback up to
\* its await before Promise.all is reached
invokedBeforeAwait(n) == n

\* nothing of the conversion has happened
ConvInit(args) ==
    /\ arg \in args
    /\ pc = "idle"
    /\ kept = <<>>
    /\ calls = <<>>
    /\ remaps = <<>>
    /\ promises = <<>>
    /\ settleOrder = <<>>
    /\ resumed = 0
    /\ reason = NoReason
    /\ result = <<>>

ConvIdle == ConvInit({[path |-> ChockHtml, project |-> "project", siteToSource |-> "noOpSiteToSource"]})

FetchIdle ==
    /\ freg = [url |-> "https://github.com/"]
    /\ fconfig = NoFields
    /\ fpc = "idle"
    /\ fexchanges = <<>>
    /\ fexchange = Pending
    /\ fverifies = <<>>
    /\ fverified = Pending
    /\ flog = <<>>
    /\ fresult = NoFields

RunIdle ==
    /\ rarg = [isLocal |-> FALSE, hasDirectory |-> "false", files |-> <<>>]
    /\ rpc = "idle"
    /\ rfiles = <<>>
    /\ rlog = <<>>
    /\ review = <<>>

PureIdle ==
    /\ pureIn = NoFields
    /\ pureDone = FALSE
    /\ pureOut = <<>>

InitWith(args) == ConvInit(args) /\ FetchIdle /\ RunIdle /\ PureIdle

Init == InitWith(Args({ChockHtml, SiteChockHtml}, SeqsUpTo(TestMessages, MaxMsgs)))

InitWide ==
    InitWith(Args({ChockHtml, ChockSvg},
                  {ms \in WideLists(MaxContext) : Len(ms) <= MaxContext + 1}))

InitPaths == InitWith(Args(Paths, SeqsUpTo(TestMessages, MaxPathMsgs)))

\* The synchronous part of the call: the guard, the filter, and every map
\* callback run up to its await, i.e. up to and including its invocation of
\* arg.siteToSource.  An invocation that throws rejects its callback's promise.
Call ==
    /\ pc = "idle"
    /\ IF noMessages(arg)
       THEN /\ pc' = "fulfilled"
            /\ UNCHANGED <<kept, calls, remaps, promises, settleOrder, resumed, reason, result>>
       ELSE IF ~Has(arg, "messages")
       THEN \* undefined.filter throws inside the async function
            /\ pc' = "rejected"
            /\ reason' = TypeError
            /\ UNCHANGED <<kept, calls, remaps, promises, settleOrder, resumed, result>>
       ELSE LET ms == SelectSeq(arg.messages, hvFilter)
                n == invokedBeforeAwait(Len(ms))
                site == [i \in 1..n |-> createSourceLocation(arg.path, ms[i])]
            IN \E thrown \in (IF arg.siteToSource = "custom" THEN SUBSET (1..n) ELSE {{}}) :
                /\ pc' = "pending"
                /\ kept' = ms
                /\ calls' = [i \in 1..n |-> [location |-> site[i], project |-> arg.project]]
                /\ remaps' = [i \in 1..n |->
                        IF i \in thrown THEN [state |-> "thrown", reason |-> RemapError(i)]
                        ELSE IF arg.siteToSource = "noOpSiteToSource"
                        THEN Fulfilled(noOpSiteToSource(site[i]))
                        ELSE Pending]
                /\ promises' = [i \in 1..n |->
                        IF i \in thrown THEN Rejected(RemapError(i)) ELSE Pending]
                /\ settleOrder' = (IF arg.siteToSource = "noOpSiteToSource"
                                   THEN [i \in 1..n |-> i] ELSE <<>>)
                /\ reason' = (IF thrown = {} THEN NoReason ELSE RemapError(Min(thrown)))
                /\ UNCHANGED <<resumed, result>>
    /\ UNCHANGED arg
    /\ UNCHANGED <<fetchVars, runVars, pureVars>>

\* The promise of the i-th invocation of the caller's siteToSource fulfils.
SiteToSourceFulfils(i) ==
    /\ i \in DOMAIN remaps
    /\ remaps[i].state = "pending"
    /\ remaps' = [remaps EXCEPT ![i] = Fulfilled(customSiteToSource(i, calls[i].location))]
    /\ settleOrder' = Append(settleOrder, i)
    /\ UNCHANGED <<arg, pc, kept, calls, promises, resumed, reason, result>>
    /\ UNCHANGED <<fetchVars, runVars, pureVars>>

\* The promise of the i-th invocation of the caller's siteToSource rejects.
SiteToSourceRejects(i) ==
    /\ i \in DOMAIN remaps
    /\ remaps[i].state = "pending"
    /\ remaps' = [remaps EXCEPT ![i] = Rejected(RemapError(i))]
    /\ settleOrder' = Append(settleOrder, i)
    /\ UNCHANGED <<arg, pc, kept, calls, promises, resumed, reason, result>>
    /\ UNCHANGED <<fetchVars, runVars, pureVars>>

\* The next callback whose awaited promise settled resumes: it returns its
\* comment, or the rejection of the awaited promise rejects its own promise.
Resume ==
    /\ resumed < Len(settleOrder)
    /\ LET i == settleOrder[resumed + 1]
           outcome == afterAwait(kept[i], remaps[i], subcategoryOf(arg.path))
       IN /\ promises' = [promises EXCEPT ![i] = outcome]
          /\ reason' = (IF outcome.state = "rejected" /\ reason = NoReason
                        THEN outcome.reason ELSE reason)
    /\ resumed' = resumed + 1
    /\ UNCHANGED <<arg, pc, kept, calls, remaps, settleOrder, result>>
    /\ UNCHANGED <<fetchVars, runVars, pureVars>>

\* Promise.all fulfils once every callback promise is fulfilled.
PromiseAllFulfils ==
    /\ pc = "pending"
    /\ \A i \in DOMAIN promises : promises[i].state = "fulfilled"
    /\ pc' = "fulfilled"
    /\ result' = promiseAllValues(promises)
    /\ UNCHANGED <<arg, kept, calls, remaps, promises, settleOrder, resumed, reason>>
    /\ UNCHANGED <<fetchVars, runVars, pureVars>>

\* Promise.all rejects with the reason of the first rejected callback promise.
PromiseAllRejects ==
    /\ pc = "pending"
    /\ \E i \in DOMAIN promises : promises[i].state = "rejected"
    /\ pc' = "rejected"
    /\ UNCHANGED <<arg, kept, calls, remaps, promises, settleOrder, resumed, reason, result>>
    /\ UNCHANGED <<fetchVars, runVars, pureVars>>

Next ==
    \/ Call
    \/ \E i \in DOMAIN remaps : SiteToSourceFulfils(i)
    \/ \E i \in DOMAIN remaps : SiteToSourceRejects(i)
    \/ Resume
    \/ PromiseAllFulfils
    \/ PromiseAllRejects

Spec == Init /\ [][Next]_vars
SpecWide == InitWide /\ [][Next]_vars
SpecPaths == InitPaths /\ [][Next]_vars

----------------------------------------------------------------------------
(* The goal executor returned by executeFetch.  A message is the sequence  *)
(* of the pieces its template literal is made of.                          *)

Urls == {"https://github.com/", "https://github.com/~SDLK/ajsdflj/Lkjoipmnb"}

\* a registration may carry httpClientOptions and a verify function
Registrations ==
    {[url |-> u] @@ o @@ v :
        u \in Urls,
        o \in {NoFields, [httpClientOptions |-> [retry |-> [retries |-> 0]]]},
        v \in {NoFields, [verify |-> "custom"]}}

\* configurations without http, without http.client, without
\* http.client.factory, and with a factory
Configurations ==
    { NoFields,
      [http |-> NoFields],
      [http |-> [client |-> NoFields]],
      [http |-> [client |-> [factory |-> "DefaultHttpClientFactory"]]] }

Statuses == {100, 199, 200, 201, 204, 299, 300, 404}
Responses == {[status |-> st, body |-> "@atomist/sdm-pack-web"] : st \in Statuses}
ExchangeErrors == {"getaddrinfo ENOTFOUND", "Request failed with status code 404"}
VerifyErrors == {"hr.body is not a string"}

\* the negation of the condition of the first if of the executor
hasFactory(c) == Has(c, "http") /\ Has(c.http, "client") /\ Has(c.http.client, "factory")

\* Create an execute goal result with the code, message, and external URL.
fetchResult(code, message, url) ==
    [code |-> code, message |-> message, externalUrls |-> <<[label |-> url, url |-> url]>>]

\* mutant: only failures are written to the progress log
logResultErrorsOnly(egr, log) == IF egr.code # 0 THEN Append(log, egr.message) ELSE log

\* Log the result and return it: the progress log after log.write
logResult(egr, log) == IF egr.message # <<>> THEN Append(log, egr.message) ELSE log

\* Return true if response status is within the range [200,300).
defaultFetchVerify(response) == response.status <= 200 /\ response.status < 300

\* mutant: the registered verify function is ignored
effectiveVerifyDefaultOnly(reg) == "defaultFetchVerify"

\* const verify = reg.verify || defaultFetchVerify
effectiveVerify(reg) == IF Has(reg, "verify") THEN reg.verify ELSE "defaultFetchVerify"

\* the result when the configuration has no HTTP client factory
noFactoryResult(url) ==
    fetchResult(1, <<"SDM client configuration does not have an HTTP client factory">>, url)

\* mutant: the failure of the exchange is reported as a failure of verify
exchangeFailedAsVerify(url, e) ==
    fetchResult(1, <<"Failed to execute verify function on result from '", url, "': ", e>>, url)

\* the result in the catch of the exchange
exchangeFailed(url, e) == fetchResult(1, <<"Failed to fetch '", url, "': ", e>>, url)

\* mutant: a verify function that throws counts as one that returned false
verifyThrewAsFalse(url, e) ==
    fetchResult(1, <<"Successfully fetched but verification failed for '", url, "'">>, url)

\* the result in the catch of the verify call
verifyThrew(url, e) ==
    fetchResult(1, <<"Failed to execute verify function on result from '", url, "': ", e>>, url)

\* mutant: the outcome of verify does not change the code
verifyReturnedAlwaysZero(verified, url) ==
    IF verified
    THEN fetchResult(0, <<"Successfully fetched and verified '", url, "'">>, url)
    ELSE fetchResult(0, <<"Successfully fetched but verification failed for '", url, "'">>, url)

\* the result of if (verified) ... else ...
verifyReturned(verified, url) ==
    IF verified
    THEN fetchResult(0, <<"Successfully fetched and verified '", url, "'">>, url)
    ELSE fetchResult(1, <<"Successfully fetched but verification failed for '", url, "'">>, url)

InitFetch ==
    /\ freg \in Registrations
    /\ fconfig \in Configurations
    /\ fpc = "idle"
    /\ fexchanges = <<>>
    /\ fexchange = Pending
    /\ fverifies = <<>>
    /\ fverified = Pending
    /\ flog = <<>>
    /\ fresult = NoFields
    /\ ConvIdle /\ RunIdle /\ PureIdle

\* return logResult(egr, log)
FetchReturns(egr) ==
    /\ fresult' = egr
    /\ flog' = logResult(egr, flog)
    /\ fpc' = "returned"

\* The executor up to its first await: without a factory it returns, with
\* one it creates the client and invokes exchange.
ExecuteFetch ==
    /\ fpc = "idle"
    /\ IF ~hasFactory(fconfig)
       THEN /\ FetchReturns(noFactoryResult(freg.url))
            /\ UNCHANGED fexchanges
       ELSE /\ fexchanges' = <<[k \in DOMAIN freg \cap {"url", "httpClientOptions"} |-> freg[k]]>>
            /\ fpc' = "exchanging"
            /\ UNCHANGED <<flog, fresult>>
    /\ UNCHANGED <<freg, fconfig, fexchange, fverifies, fverified>>
    /\ UNCHANGED <<convVars, runVars, pureVars>>

\* The exchange resolves and the executor invokes the verify function.
ExchangeResolves ==
    /\ fpc = "exchanging"
    /\ \E response \in Responses :
        /\ fexchange' = Fulfilled(response)
        /\ fverifies' = <<[fn |-> effectiveVerify(freg), response |-> response]>>
        /\ fverified' = (IF effectiveVerify(freg) = "defaultFetchVerify"
                         THEN Fulfilled(defaultFetchVerify(response))
                         ELSE Pending)
    /\ fpc' = "verifying"
    /\ UNCHANGED <<freg, fconfig, fexchanges, flog, fresult>>
    /\ UNCHANGED <<convVars, runVars, pureVars>>

\* The exchange rejects: the executor returns from its first catch.
ExchangeRejects ==
    /\ fpc = "exchanging"
    /\ \E e \in ExchangeErrors :
        /\ fexchange' = Rejected(e)
        /\ FetchReturns(exchangeFailed(freg.url, e))
    /\ UNCHANGED <<freg, fconfig, fexchanges, fverifies, fverified>>
    /\ UNCHANGED <<convVars, runVars, pureVars>>

\* The promise of the registered verify function fulfils.
VerifyResolves ==
    /\ fpc = "verifying"
    /\ fverified = Pending
    /\ \E b \in BOOLEAN : fverified' = Fulfilled(b)
    /\ UNCHANGED <<freg, fconfig, fpc, fexchanges, fexchange, fverifies, flog, fresult>>
    /\ UNCHANGED <<convVars, runVars, pureVars>>

\* The registered verify function throws or its promise rejects.
VerifyRejects ==
    /\ fpc = "verifying"
    /\ fverified = Pending
    /\ \E e \in VerifyErrors : fverified' = Rejected(e)
    /\ UNCHANGED <<freg, fconfig, fpc, fexchanges, fexchange, fverifies, flog, fresult>>
    /\ UNCHANGED <<convVars, runVars, pureVars>>

\* The executor resumes after await verify(result) and returns.
AfterVerify ==
    /\ fpc = "verifying"
    /\ fverified # Pending
    /\ IF fverified.state = "rejected"
       THEN FetchReturns(verifyThrew(freg.url, fverified.reason))
       ELSE FetchReturns(verifyReturned(fverified.value, freg.url))
    /\ UNCHANGED <<freg, fconfig, fexchanges, fexchange, fverifies, fverified>>
    /\ UNCHANGED <<convVars, runVars, pureVars>>

NextFetch ==
    \/ ExecuteFetch
    \/ ExchangeResolves
    \/ ExchangeRejects
    \/ VerifyResolves
    \/ VerifyRejects
    \/ AfterVerify

SpecFetch == InitFetch /\ [][NextFetch]_vars

----------------------------------------------------------------------------
(* The inspection returned by runHtmlValidator.  projectUtils.doWithFiles  *)
(* is a library function: the callbacks of the files may interleave in     *)
(* any way.  A line of the progress log is a record of its template and    *)
(* of the values put into it.                                              *)

\* the sequences of at most n distinct elements of S
DistinctSeqsUpTo(S, n) ==
    {fs \in SeqsUpTo(S, n) : \A i, j \in DOMAIN fs : i # j => fs[i] # fs[j]}

\* the messages the validator may answer with for one file
ValidatorMessages ==
    { <<>>,
      <<[type |-> "info", subType |-> "warning", message |-> "huh?", extract |-> "x",
         hiliteStart |-> 8, lastColumn |-> 7, lastLine |-> 6]>>,
      <<[type |-> "error", message |-> "what?", extract |-> "x",
         hiliteStart |-> 0, lastColumn |-> 1, lastLine |-> 3],
        [type |-> "info", message |-> "no?", extract |-> "x",
         hiliteStart |-> 2, lastColumn |-> 2, lastLine |-> 2]>> }

\* arg.siteToSource || noOpSiteToSource
siteToSourceOf(a) == IF Has(a, "siteToSource") THEN a.siteToSource ELSE "noOpSiteToSource"

\* the list a call of htmlValidatorMessagesToReviewComments resolves to
\* when none of its remaps fails
convertedComments(a) ==
    IF noMessages(a) THEN <<>>
    ELSE LET ms == SelectSeq(a.messages, hvFilter)
         IN [i \in 1..Len(ms) |->
                reviewComment(ms[i],
                    IF a.siteToSource = "noOpSiteToSource"
                    THEN noOpSiteToSource(createSourceLocation(a.path, ms[i]))
                    ELSE customSiteToSource(i, createSourceLocation(a.path, ms[i])),
                    subcategoryOf(a.path))]

\* whether a call can reject: only a remap of a retained message can fail
conversionCanReject(a) ==
    /\ ~noMessages(a)
    /\ a.siteToSource = "custom"
    /\ SelectSeq(a.messages, hvFilter) # <<>>

\* mutant: the callback has no try/catch of its own, as in the revision before
fileFailedUncaught(e) == [stage |-> "rejected", error |-> e]

\* the catch of the callback of a file: the callback returns normally
fileFailed(e) == [stage |-> "failed", error |-> e]

InitRun ==
    /\ rarg \in {[isLocal |-> l, hasDirectory |-> d, files |-> fs] @@ m :
                    l \in BOOLEAN,
                    d \in {"true", "false", "rejects"},
                    fs \in DistinctSeqsUpTo({ChockHtml, ChockCss, ChockSvg}, MaxFiles),
                    m \in {NoFields, [siteToSource |-> "custom"]}}
    /\ rpc = "idle"
    /\ rfiles = [k \in DOMAIN rarg.files |-> [stage |-> "todo"]]
    /\ rlog = <<>>
    /\ review = <<>>
    /\ ConvIdle /\ FetchIdle /\ PureIdle

\* The inspection up to projectUtils.doWithFiles.
RunHtmlValidator ==
    /\ rpc = "idle"
    /\ IF ~rarg.isLocal
       THEN /\ rlog' = Append(rlog, [line |-> "Project <slug> is not a local project"])
            /\ rpc' = "returned"
       ELSE IF rarg.hasDirectory = "rejects"
       THEN /\ rpc' = "rejected"
            /\ UNCHANGED rlog
       ELSE IF rarg.hasDirectory = "false"
       THEN /\ rlog' = Append(rlog,
                  [line |-> "Project <slug> does not have site directory '<sitePath>'"])
            /\ rpc' = "returned"
       ELSE /\ rlog' = Append(rlog, [line |-> "Running html-validator on <slug> at '<absPath>'"])
            /\ rpc' = "walking"
    /\ UNCHANGED <<rarg, rfiles, review>>
    /\ UNCHANGED <<convVars, fetchVars, pureVars>>

\* the effect of an exception in the callback of file k
FileFails(k, e) ==
    LET outcome == fileFailed(e)
    IN /\ rfiles' = [rfiles EXCEPT ![k] = outcome]
       /\ rlog' = (IF outcome.stage = "failed"
                   THEN Append(rlog,
                          [line |-> "Failed to run html-validator on '<slug>/<sitePath>/<path>': <e>",
                           path |-> rarg.files[k], e |-> e])
                   ELSE rlog)

\* doWithFiles invokes the callback of file k, which awaits f.getContent().
StartFile(k) ==
    /\ rpc = "walking"
    /\ rfiles[k].stage = "todo"
    /\ \A j \in DOMAIN rfiles : rfiles[j].stage # "rejected"
    /\ rlog' = Append(rlog, [line |-> "Processing <path>...", path |-> rarg.files[k]])
    /\ rfiles' = [rfiles EXCEPT ![k] = [stage |-> "content"]]
    /\ UNCHANGED <<rarg, rpc, review>>
    /\ UNCHANGED <<convVars, fetchVars, pureVars>>

\* f.getContent() resolves: without content the callback returns, with
\* content it awaits the validator.
ContentResolves(k) ==
    /\ rfiles[k].stage = "content"
    /\ \E content \in {"", "<html>"} :
        IF content = ""
        THEN /\ rlog' = Append(rlog, [line |-> "No content in <path>", path |-> rarg.files[k]])
             /\ rfiles' = [rfiles EXCEPT ![k] = [stage |-> "empty"]]
        ELSE /\ rfiles' = [rfiles EXCEPT ![k] = [stage |-> "validating"]]
             /\ UNCHANGED rlog
    /\ UNCHANGED <<rarg, rpc, review>>
    /\ UNCHANGED <<convVars, fetchVars, pureVars>>

\* f.getContent() rejects.
ContentRejects(k) ==
    /\ rfiles[k].stage = "content"
    /\ FileFails(k, "getContent failed")
    /\ UNCHANGED <<rarg, rpc, review>>
    /\ UNCHANGED <<convVars, fetchVars, pureVars>>

\* The validator resolves: the callback awaits the conversion of its messages.
ValidatorResolves(k) ==
    /\ rfiles[k].stage = "validating"
    /\ \E ms \in ValidatorMessages :
        rfiles' = [rfiles EXCEPT ![k] =
            [stage |-> "converting",
             convertArgs |-> [messages |-> ms, path |-> rarg.files[k], project |-> "project",
                              siteToSource |-> siteToSourceOf(rarg)]]]
    /\ UNCHANGED <<rarg, rpc, rlog, review>>
    /\ UNCHANGED <<convVars, fetchVars, pureVars>>

\* The validator rejects.
ValidatorRejects(k) ==
    /\ rfiles[k].stage = "validating"
    /\ FileFails(k, "validator failed")
    /\ UNCHANGED <<rarg, rpc, review>>
    /\ UNCHANGED <<convVars, fetchVars, pureVars>>

\* The conversion resolves: review.comments.push(...comments).
ConversionResolves(k) ==
    /\ rfiles[k].stage = "converting"
    /\ LET comments == convertedComments(rfiles[k].convertArgs)
       IN /\ review' = review \o comments
          /\ rfiles' = [rfiles EXCEPT ![k] = [stage |-> "done", comments |-> comments]]
    /\ UNCHANGED <<rarg, rpc, rlog>>
    /\ UNCHANGED <<convVars, fetchVars, pureVars>>

\* The conversion rejects because a remap failed.
ConversionRejects(k) ==
    /\ rfiles[k].stage = "converting"
    /\ conversionCanReject(rfiles[k].convertArgs)
    /\ FileFails(k, "siteToSource failed")
    /\ UNCHANGED <<rarg, rpc, review>>
    /\ UNCHANGED <<convVars, fetchVars, pureVars>>

\* doWithFiles rejects, before it invoked a callback or because a callback
\* rejected: the outer catch logs and the inspection returns the review.
WalkFails ==
    /\ rpc = "walking"
    /\ \/ \A k \in DOMAIN rfiles : rfiles[k].stage = "todo"
       \/ \E k \in DOMAIN rfiles : rfiles[k].stage = "rejected"
    /\ rlog' = Append(rlog, [line |-> "Failed to run html-validator on <slug> at '<absPath>': <e>"])
    /\ rpc' = "returned"
    /\ UNCHANGED <<rarg, rfiles, review>>
    /\ UNCHANGED <<convVars, fetchVars, pureVars>>

\* doWithFiles resolves once every callback returned; the inspection
\* returns the review.
WalkDone ==
    /\ rpc = "walking"
    /\ \A k \in DOMAIN rfiles : rfiles[k].stage \in {"empty", "done", "failed"}
    /\ rpc' = "returned"
    /\ UNCHANGED <<rarg, rfiles, rlog, review>>
    /\ UNCHANGED <<convVars, fetchVars, pureVars>>

NextRun ==
    \/ RunHtmlValidator
    \/ \E k \in DOMAIN rfiles : StartFile(k)
    \/ \E k \in DOMAIN rfiles : ContentResolves(k)
    \/ \E k \in DOMAIN rfiles : ContentRejects(k)
    \/ \E k \in DOMAIN rfiles : ValidatorResolves(k)
    \/ \E k \in DOMAIN rfiles : ValidatorRejects(k)
    \/ \E k \in DOMAIN rfiles : ConversionResolves(k)
    \/ \E k \in DOMAIN rfiles : ConversionRejects(k)
    \/ WalkFails
    \/ WalkDone

SpecRun == InitRun /\ [][NextRun]_vars

----------------------------------------------------------------------------
(* The earliest revision, src/lib/html-validator.ts.  A string is the      *)
(* sequence of the pieces it is concatenated from; numbers are rendered    *)
(* digit by digit.                                                         *)

Digit == <<"0", "1", "2", "3", "4", "5", "6", "7", "8", "9">>

\* Number.prototype.toString(10) of a natural number
RECURSIVE toString10(_)
toString10(n) ==
    IF n < 10 THEN <<Digit[n + 1]>>
    ELSE toString10(n \div 10) \o <<Digit[(n % 10) + 1]>>

\* the truthiness of a property that holds a number, and of one that holds a string
TruthyNumber(m, f) == Has(m, f) /\ m[f] # 0
TruthyString(m, f) == Has(m, f) /\ m[f] # ""

\* mutant: the kind is the type even when there is a subType
summaryOfTypeOnly(m) ==
    LET kind == m.type
        line == IF TruthyNumber(m, "lastLine") THEN toString10(m.lastLine) ELSE <<>>
        position == IF TruthyNumber(m, "lastColumn")
                    THEN line \o <<":">> \o toString10(m.lastColumn) ELSE line
        bracketed == IF position # <<>> THEN <<"[">> \o position \o <<"]", " ">> ELSE <<>>
    IN bracketed \o <<kind, ":", " ", m.message>>

\* the callback of messages.map in htmlValidatorMessagesToString
summaryOf(m) ==
    LET kind == IF TruthyString(m, "subType") THEN m.subType ELSE m.type
        line == IF TruthyNumber(m, "lastLine") THEN toString10(m.lastLine) ELSE <<>>
        position == IF TruthyNumber(m, "lastColumn")
                    THEN line \o <<":">> \o toString10(m.lastColumn) ELSE line
        bracketed == IF position # <<>> THEN <<"[">> \o position \o <<"]", " ">> ELSE <<>>
    IN bracketed \o <<kind, ":", " ", m.message>>

\* Array.prototype.join of strings
RECURSIVE join(_, _)
join(strings, separator) ==
    IF strings = <<>> THEN <<>>
    ELSE IF Len(strings) = 1 THEN strings[1]
    ELSE strings[1] \o separator \o join(Tail(strings), separator)

\* Convert html-validator messages to a string for the progress log.
htmlValidatorMessagesToString(a) ==
    IF noMessages(a) THEN <<" no results">>
    ELSE LET summaries == [i \in 1..Len(a.messages) |-> summaryOf(a.messages[i])]
         IN IF Len(summaries) = 1
            THEN <<" ">> \o summaries[1]
            ELSE <<"\n">> \o join([i \in 1..Len(summaries) |-> <<" ", " ">> \o summaries[i]],
                                  <<"\n">>)

\* mutant: info messages whose subType is "warning" are kept, as in later revisions
earliestFilterKeepsWarnings(m) ==
    IF m.type = "info"
    THEN IF Has(m, "subType") /\ m.subType = "warning" THEN TRUE ELSE FALSE
    ELSE TRUE

\* m => m.type !== "info"
earliestFilter(m) == m.type # "info"

\* the sourceLocation literal of the earliest revision
earliestSourceLocation(src, m) ==
    Assign(Assign(Assign([path |-> src],
        "columnFrom1", m, "lastColumn"),
        "lineFrom1", m, "lastLine"),
        "offset", m, "hiliteStart")

\* htmlValidatorMessagesToReviewComments of src/lib/html-validator.ts
earliestHtmlValidatorMessagesToReviewComments(src, messages) ==
    LET subcategory == subcategoryOf(src)
        ms == SelectSeq(messages, earliestFilter)
    IN [i \in 1..Len(ms) |->
           [category |-> "html-validator",
            detail |-> ms[i].message,
            severity |-> severityOf(ms[i]),
            sourceLocation |-> earliestSourceLocation(src, ms[i]),
            subcategory |-> subcategory]]

\* messages given to htmlValidatorMessagesToString
StringMessages ==
    {[type |-> t, message |-> x] @@ st @@ l @@ c :
        t \in {"info", "error"},
        x \in {"what?", "huh?"},
        st \in {NoFields, [subType |-> "warning"]},
        l \in {NoFields, [lastLine |-> 0], [lastLine |-> 12]},
        c \in {NoFields, [lastColumn |-> 0], [lastColumn |-> 4]}}

\* messages given to the earliest htmlValidatorMessagesToReviewComments
EarliestMessages ==
    {[type |-> t, message |-> x] @@ st @@ l :
        t \in Types,
        x \in {"what?", "Parse Error."},
        st \in {NoFields, [subType |-> "warning"]},
        l \in { NoFields,
                [hiliteStart |-> 0, lastColumn |-> 1, lastLine |-> 3],
                [extract |-> "x", hiliteStart |-> 4, lastColumn |-> 5, lastLine |-> 6],
                [lastLine |-> 6] }}

InitString ==
    /\ pureIn \in {NoFields} \cup {[messages |-> ms] : ms \in SeqsUpTo(StringMessages, MaxPureMsgs)}
    /\ pureDone = FALSE
    /\ pureOut = <<>>
    /\ ConvIdle /\ FetchIdle /\ RunIdle

InitEarliest ==
    /\ pureIn \in {[src |-> p, messages |-> ms] :
                     p \in {ChockHtml, ChockSvg}, ms \in SeqsUpTo(EarliestMessages, MaxPureMsgs)}
    /\ pureDone = FALSE
    /\ pureOut = <<>>
    /\ ConvIdle /\ FetchIdle /\ RunIdle

ApplyToString ==
    /\ ~pureDone
    /\ pureOut' = htmlValidatorMessagesToString(pureIn)
    /\ pureDone' = TRUE
    /\ UNCHANGED pureIn
    /\ UNCHANGED <<convVars, fetchVars, runVars>>

ApplyEarliest ==
    /\ ~pureDone
    /\ pureOut' = earliestHtmlValidatorMessagesToReviewComments(pureIn.src, pureIn.messages)
    /\ pureDone' = TRUE
    /\ UNCHANGED pureIn
    /\ UNCHANGED <<convVars, fetchVars, runVars>>

NextString == ApplyToString
NextEarliest == ApplyEarliest

SpecString == InitString /\ [][NextString]_vars
SpecEarliest == InitEarliest /\ [][NextEarliest]_vars

----------------------------------------------------------------------------
(* The revision before the canonical one, src/unnamed/part_001: a          *)
(* synchronous htmlValidatorMessagesToReviewComments(src, messages) with   *)
(* infoFilter.  It is applied to the input of a canonical call so that the *)
(* two answers can be compared.                                            *)

\* infoFilter of the synchronous revision
infoFilter(m) ==
    IF m.type = "info"
    THEN IF Has(m, "subType") /\ m.subType = "warning" THEN TRUE ELSE FALSE
    ELSE TRUE

\* hasLocation of the synchronous revision: !!m.extract
syncHasLocation(m) == Has(m, "extract") /\ m.extract # ""

\* the sourceLocation built inside the map callback of the synchronous revision
syncSourceLocation(src, m) ==
    LET sourceLocation == [path |-> src, offset |-> 0, columnFrom1 |-> 0, lineFrom1 |-> 0]
    IN IF syncHasLocation(m)
       THEN Assign(Assign(Assign(sourceLocation,
                "columnFrom1", m, "lastColumn"),
                "lineFrom1", m, "lastLine"),
                "offset", m, "hiliteStart")
       ELSE sourceLocation

\* htmlValidatorMessagesToReviewComments(src, messages) of the synchronous
\* revision; in is the record of its arguments, messages may be undefined
syncHtmlValidatorMessagesToReviewComments(in) ==
    IF ~Has(in, "messages") \/ Len(in.messages) < 1 THEN <<>>
    ELSE LET subcategory == (IF endsWith(in.src, DotCss) THEN "css"
                             ELSE IF endsWith(in.src, DotSvg) THEN "svg" ELSE "html")
             ms == SelectSeq(in.messages, infoFilter)
         IN [i \in 1..Len(ms) |->
                [category |-> "html-validator",
                 detail |-> ms[i].message,
                 severity |-> (IF Has(ms[i], "subType") /\ ms[i].subType = "warning"
                               THEN "warn" ELSE "error"),
                 sourceLocation |-> syncSourceLocation(in.src, ms[i]),
                 subcategory |-> subcategory]]

\* the arguments of the synchronous revision that correspond to arg
syncArguments(a) ==
    [src |-> a.path] @@ (IF Has(a, "messages") THEN [messages |-> a.messages] ELSE NoFields)

\* a canonical call with the identity siteToSource, and the synchronous
\* revision given the same path and messages
InitRevisions ==
    /\ ConvInit({a \in Args({ChockHtml, ChockCss, ChockSvg},
                            {ms \in WideLists(MaxContext) : Len(ms) <= MaxContext + 1}) :
                    a.siteToSource = "noOpSiteToSource"})
    /\ pureIn = syncArguments(arg)
    /\ pureDone = FALSE
    /\ pureOut = <<>>
    /\ FetchIdle /\ RunIdle

ApplySync ==
    /\ ~pureDone
    /\ pureOut' = syncHtmlValidatorMessagesToReviewComments(pureIn)
    /\ pureDone' = TRUE
    /\ UNCHANGED pureIn
    /\ UNCHANGED <<convVars, fetchVars, runVars>>

NextRevisions ==
    \/ Call
    \/ Resume
    \/ PromiseAllFulfils
    \/ ApplySync

SpecRevisions == InitRevisions /\ [][NextRevisions]_vars

----------------------------------------------------------------------------
(* Vocabulary of the properties *)

IsWarning(m) == Has(m, "subType") /\ m.subType = "warning"
IsPlainInfo(m) == m.type = "info" /\ ~IsWarning(m)
IsParseError(m) == m.type # "info" /\ m.message = "Parse Error."
Accepted(m) == ~IsPlainInfo(m) /\ ~IsParseError(m)

Messages == IF Has(arg, "messages") THEN arg.messages ELSE <<>>
Indices(P(_)) == {j \in DOMAIN Messages : P(Messages[j])}
KeptIndices(P(_)) == {i \in DOMAIN kept : P(kept[i])}

\* the position in arg.messages of the i-th accepted message
NthAccepted(i) ==
    CHOOSE j \in Indices(Accepted) :
        Cardinality({k \in Indices(Accepted) : k <= j}) = i

Called == pc # "idle"
SomeRemapFailed == \E i \in DOMAIN remaps : remaps[i].state \in {"rejected", "thrown"}
SettledOutOfOrder ==
    \E a, b \in DOMAIN settleOrder : a < b /\ settleOrder[a] > settleOrder[b]

\* the output list is the filter's list, comment by comment
OneCommentPerKept ==
    pc = "fulfilled" =>
        /\ Len(result) = Len(kept)
        /\ \A i \in DOMAIN result : result[i].detail = kept[i].message

----------------------------------------------------------------------------
(* C1: whatever the order in which the siteToSource promises settle, the   *)
(* resolved list holds exactly one comment per message accepted by the     *)
(* filter, and its i-th comment is built from the i-th accepted message    *)
(* and from what the i-th remap resolved to.                               *)
C1_OrderPreserved ==
    pc = "fulfilled" =>
        /\ Len(result) = Cardinality(Indices(Accepted))
        /\ \A i \in DOMAIN result :
            LET m == Messages[NthAccepted(i)]
            IN /\ result[i].detail = m.message
               /\ result[i].severity = (IF IsWarning(m) THEN "warn" ELSE "error")
               /\ remaps[i].state = "fulfilled"
               /\ result[i].sourceLocation = remaps[i].value
               /\ calls[i].location.path = arg.path

C1_Witness ==
    /\ pc = "fulfilled"
    /\ Len(result) = 3
    /\ settleOrder = <<3, 1, 2>>
    /\ Len(Messages) = 3

(* C2: a message of type "info" whose subType is not "warning" has no      *)
(* comment in the output, with or without location properties; an info     *)
(* message whose subType is "warning" is retained.                         *)
C2_PlainInfoDropped ==
    Called =>
        /\ KeptIndices(IsPlainInfo) = {}
        /\ Cardinality(KeptIndices(LAMBDA m : m.type = "info" /\ IsWarning(m)))
             = Cardinality(Indices(LAMBDA m : m.type = "info" /\ IsWarning(m)))
        /\ OneCommentPerKept
        /\ pc = "fulfilled" =>
             Len(result) <= Len(Messages) - Cardinality(Indices(IsPlainInfo))

C2_Witness ==
    /\ pc = "fulfilled"
    /\ Len(Messages) = 2
    /\ IsPlainInfo(Messages[1]) /\ hasLocation(Messages[1])
    /\ Messages[2].type = "info" /\ IsWarning(Messages[2]) /\ ~Has(Messages[2], "extract")
    /\ Len(result) = 1
    /\ result[1].detail = Messages[2].message

(* C3: a message whose type is not "info" is retained if and only if its   *)
(* text is not exactly "Parse Error.", whatever its subType; a text that   *)
(* only contains "Parse Error." is retained.                               *)
C3_ParseErrorDropped ==
    Called =>
        /\ KeptIndices(IsParseError) = {}
        /\ Cardinality(KeptIndices(LAMBDA m : m.type # "info"))
             = Cardinality(Indices(LAMBDA m : m.type # "info" /\ m.message # "Parse Error."))
        /\ OneCommentPerKept
        /\ pc = "fulfilled" =>
             \A x \in {Messages[j].message : j \in Indices(LAMBDA m : m.type # "info")} :
                 x # "Parse Error." <=> \E i \in DOMAIN result :
                                            result[i].detail = x /\ kept[i].type # "info"

C3_Witness ==
    /\ pc = "fulfilled"
    /\ Len(Messages) = 2
    /\ Messages[1].type = "error" /\ IsWarning(Messages[1])
    /\ Messages[1].message = "Parse Error."
    /\ Len(result) = 1
    /\ result[1].detail = "what?"

(* C4: the comment of a message whose subType is "warning" has severity    *)
(* "warn", whatever the type; the comment of a message of type "error"     *)
(* whose subType is not "warning" has severity "error".                    *)
C4_SeverityFromSubType ==
    pc = "fulfilled" =>
        /\ Len(result) = Len(kept)
        /\ \A i \in DOMAIN result :
            /\ IsWarning(kept[i]) => result[i].severity = "warn"
            /\ kept[i].type = "error" /\ ~IsWarning(kept[i]) => result[i].severity = "error"
            /\ result[i].severity \in {"warn", "error"}

C4_Witness ==
    /\ pc = "fulfilled"
    /\ Len(result) = 2
    /\ kept[1].type = "error" /\ IsWarning(kept[1]) /\ result[1].severity = "warn"
    /\ kept[2].type = "error" /\ ~IsWarning(kept[2]) /\ result[2].severity = "error"

(* C5: every comment has category "html-validator" and a subcategory that  *)
(* depends on the last four characters of the path only, compared with     *)
(* their case: ".css" gives "css", ".svg" gives "svg", anything else       *)
(* "html"; the comments of one call share their subcategory.               *)
LastFour(p) == IF Len(p) < 4 THEN <<>> ELSE [k \in 1..4 |-> p[Len(p) - 4 + k]]

C5_Subcategory ==
    pc = "fulfilled" =>
        \A i \in DOMAIN result :
            /\ result[i].category = "html-validator"
            /\ LastFour(arg.path) = <<".", "c", "s", "s">> => result[i].subcategory = "css"
            /\ LastFour(arg.path) = <<".", "s", "v", "g">> => result[i].subcategory = "svg"
            /\ LastFour(arg.path) \notin {<<".", "c", "s", "s">>, <<".", "s", "v", "g">>}
                 => result[i].subcategory = "html"
            /\ result[i].subcategory = result[1].subcategory

C5_Witness ==
    /\ pc = "fulfilled"
    /\ arg.path = <<"a", ".", "C", "S", "S">>
    /\ Len(result) = 2
    /\ result[2].subcategory = "html"

(* C6: when messages is empty or undefined the call resolves to the empty  *)
(* list: it does not reject and siteToSource is never invoked.             *)
C6_NoMessagesNoComments ==
    (~Has(arg, "messages") \/ arg.messages = <<>>) =>
        /\ pc \in {"idle", "fulfilled"}
        /\ result = <<>>
        /\ calls = <<>>
        /\ reason = NoReason

C6_Witness ==
    /\ ~Has(arg, "messages")
    /\ arg.siteToSource = "custom"
    /\ pc = "fulfilled"
    /\ result = <<>>

(* C7: the location handed to siteToSource for a retained message without  *)
(* an extract (undefined or empty) is the path with offset, line and       *)
(* column 0, whatever hiliteStart, lastLine and lastColumn the message     *)
(* carries; with an extract, offset, lineFrom1 and columnFrom1 are the     *)
(* message's hiliteStart, lastLine and lastColumn.                         *)
SameProperty(loc, k, m, f) ==
    /\ Has(loc, k) <=> Has(m, f)
    /\ Has(m, f) => loc[k] = m[f]

C7_LocationDefaulting ==
    Called =>
        /\ Len(calls) = Len(kept)
        /\ \A i \in DOMAIN calls :
            LET m == kept[i]
                loc == calls[i].location
            IN /\ loc.path = arg.path
               /\ (~Has(m, "extract") \/ m.extract = "") =>
                     loc = [path |-> arg.path, offset |-> 0, lineFrom1 |-> 0, columnFrom1 |-> 0]
               /\ (Has(m, "extract") /\ m.extract # "") =>
                     /\ SameProperty(loc, "offset", m, "hiliteStart")
                     /\ SameProperty(loc, "lineFrom1", m, "lastLine")
                     /\ SameProperty(loc, "columnFrom1", m, "lastColumn")

C7_Witness ==
    /\ Called
    /\ Len(calls) = 2
    /\ Has(kept[1], "extract") /\ kept[1].extract = ""
    /\ Has(kept[1], "hiliteStart") /\ kept[1].hiliteStart = 2
    /\ calls[1].location.offset = 0 /\ calls[1].location.lineFrom1 = 0
    /\ hasLocation(kept[2]) /\ calls[2].location.columnFrom1 = 1

(* C8: every location resolved from a message has offset, lineFrom1 and    *)
(* columnFrom1 present as numbers: a hiliteStart, lastLine or lastColumn   *)
(* that is undefined falls back to 0 and undefined is never propagated.    *)
C8_LocationFieldsPresent ==
    \A i \in DOMAIN calls :
        /\ {"offset", "lineFrom1", "columnFrom1"} \subseteq DOMAIN calls[i].location
        /\ \A k \in {"offset", "lineFrom1", "columnFrom1"} :
              Has(calls[i].location, k) => calls[i].location[k] \in Nat

(* C9: the sourceLocation of the comment of a retained message is the      *)
(* value siteToSource resolved to when invoked with the message's site     *)
(* location and the project of the call; with noOpSiteToSource it is the   *)
(* site location itself.                                                   *)
C9_RemapApplied ==
    /\ Called =>
        /\ Len(calls) = Len(kept)
        /\ \A i \in DOMAIN calls :
            /\ calls[i].project = arg.project
            /\ calls[i].location = createSourceLocation(arg.path, kept[i])
    /\ pc = "fulfilled" =>
        /\ Len(result) = Len(calls)
        /\ \A i \in DOMAIN result :
            /\ remaps[i].state = "fulfilled"
            /\ result[i].sourceLocation = remaps[i].value
            /\ arg.siteToSource = "noOpSiteToSource" =>
                  result[i].sourceLocation = calls[i].location

C9_Witness ==
    /\ pc = "fulfilled"
    /\ arg.siteToSource = "custom"
    /\ Len(result) = 2
    /\ result[2].sourceLocation # calls[2].location
    /\ result[2].sourceLocation.path = DocChockHtml

(* C10: once siteToSource has thrown or rejected for a retained message    *)
(* the call never resolves to a list: it can only reject, and it rejects   *)
(* with the failure of a remap, never with a substituted location.         *)
C10_RemapFailurePropagates ==
    /\ SomeRemapFailed =>
        /\ pc \in {"pending", "rejected"}
        /\ result = <<>>
    /\ pc = "rejected" =>
        /\ result = <<>>
        /\ \E i \in DOMAIN remaps :
            /\ remaps[i].state \in {"rejected", "thrown"}
            /\ reason = remaps[i].reason
    /\ \A i \in DOMAIN promises :
        /\ promises[i].state = "fulfilled" => remaps[i].state = "fulfilled"
        /\ (remaps[i].state = "thrown" \/ (remaps[i].state = "rejected" /\ promises[i].state # "pending"))
              => promises[i] = Rejected(remaps[i].reason)

C10_Witness ==
    /\ pc = "rejected"
    /\ Len(remaps) = 3
    /\ remaps[1].state = "fulfilled" /\ promises[1].state = "fulfilled"
    /\ remaps[2].state = "rejected"
    /\ remaps[3].state = "pending"
    /\ reason = RemapError(2)

----------------------------------------------------------------------------
(* Properties of the fetch goal executor *)

FetchReturned == fpc = "returned"
VerifySupplied == Has(freg, "verify")

(* C13: without a registered verify function a fetched response counts as  *)
(* verified (code 0) if and only if its status is in [200,300).            *)
C13_DefaultVerifyRange ==
    (FetchReturned /\ ~VerifySupplied /\ fexchange.state = "fulfilled") =>
        (fresult.code = 0 <=> (200 <= fexchange.value.status /\ fexchange.value.status < 300))

(* C14: the executor returns code 0, with the message "Successfully        *)
(* fetched and verified '<url>'", exactly when the exchange resolved and   *)
(* the verify function resolved to true; otherwise it returns code 1.      *)
C14_ResultCode ==
    FetchReturned =>
        LET ok == fexchange.state = "fulfilled" /\ fverified = Fulfilled(TRUE)
        IN /\ fresult.code \in {0, 1}
           /\ fresult.code = 0 <=> ok
           /\ ok <=> fresult.message = <<"Successfully fetched and verified '", freg.url, "'">>

C14_Witness ==
    /\ FetchReturned
    /\ fresult.code = 0
    /\ ~VerifySupplied
    /\ fexchange.value.status = 200

(* C15: when the exchange rejects the executor returns code 1 with a       *)
(* message that starts with "Failed to fetch '<url>': " and ends with the  *)
(* message of the error, and the verify function is never invoked.         *)
C15_FailedExchange ==
    fexchange.state = "rejected" =>
        /\ FetchReturned
        /\ fresult.code = 1
        /\ SubSeq(fresult.message, 1, 3) = <<"Failed to fetch '", freg.url, "': ">>
        /\ SubSeq(fresult.message, 4, Len(fresult.message)) = <<fexchange.reason>>
        /\ fverifies = <<>>
        /\ fverified = Pending

C15_Witness ==
    /\ FetchReturned
    /\ fexchange.state = "rejected"
    /\ VerifySupplied
    /\ freg.url = "https://github.com/~SDLK/ajsdflj/Lkjoipmnb"

(* C16: a registered verify function is invoked exactly once per           *)
(* execution, after the exchange resolved and with its response, and its   *)
(* result, not the status of the response, decides between code 0 and 1.   *)
C16_RegisteredVerifyUsed ==
    VerifySupplied =>
        /\ Len(fverifies) <= 1
        /\ fverifies # <<>> =>
             /\ fexchange.state = "fulfilled"
             /\ fverifies[1] = [fn |-> freg.verify, response |-> fexchange.value]
        /\ (fexchange.state = "fulfilled") => Len(fverifies) = 1
        /\ (FetchReturned /\ fverified.state = "fulfilled") =>
             fresult.code = (IF fverified.value THEN 0 ELSE 1)

C16_Witness ==
    /\ FetchReturned
    /\ VerifySupplied
    /\ fexchange.state = "fulfilled" /\ fexchange.value.status = 404
    /\ fverified = Fulfilled(TRUE)
    /\ fresult.code = 0

(* C19: when the verify function throws or rejects the executor returns    *)
(* code 1 with "Failed to execute verify function on result from '<url>':  *)
(* <error message>", which is not the message of a verify function that    *)
(* returned false.                                                         *)
C19_VerifyThrows ==
    FetchReturned =>
        /\ fverified.state = "rejected" =>
             /\ fresult.code = 1
             /\ fresult.message = <<"Failed to execute verify function on result from '",
                                    freg.url, "': ", fverified.reason>>
        /\ fverified = Fulfilled(FALSE) =>
             /\ fresult.code = 1
             /\ fresult.message = <<"Successfully fetched but verification failed for '",
                                    freg.url, "'">>

C19_Witness ==
    /\ FetchReturned
    /\ fverified.state = "rejected"
    /\ fresult.code = 1
    /\ Len(flog) = 1

(* C20: without http, http.client or http.client.factory in the            *)
(* configuration the executor returns code 1 with "SDM client              *)
(* configuration does not have an HTTP client factory" and invokes neither *)
(* exchange nor verify; whatever the outcome, externalUrls is the one      *)
(* entry {label: url, url} and the message is written to the progress log  *)
(* exactly once.                                                           *)
C20_NoFactoryAndLogging ==
    /\ fconfig \in {NoFields, [http |-> NoFields], [http |-> [client |-> NoFields]]} =>
        /\ fexchanges = <<>>
        /\ fverifies = <<>>
        /\ FetchReturned =>
             /\ fresult.code = 1
             /\ fresult.message =
                  <<"SDM client configuration does not have an HTTP client factory">>
    /\ FetchReturned =>
        /\ fresult.externalUrls = <<[label |-> freg.url, url |-> freg.url]>>
        /\ flog = <<fresult.message>>
    /\ ~FetchReturned => flog = <<>>

C20_Witness ==
    /\ FetchReturned
    /\ fconfig = [http |-> [client |-> NoFields]]
    /\ Has(freg, "httpClientOptions")
    /\ flog # <<>>

----------------------------------------------------------------------------
(* Properties of the earliest revision *)

PureMessages == IF Has(pureIn, "messages") THEN pureIn.messages ELSE <<>>

\* the i-th smallest element of a set of indices
Nth(S, i) == CHOOSE j \in S : Cardinality({k \in S : k <= j}) = i

LineSet(m) == Has(m, "lastLine") /\ m.lastLine # 0
ColumnSet(m) == Has(m, "lastColumn") /\ m.lastColumn # 0

\* the summary of a message as the layout describes it
ExpectedSummary(m) ==
    LET prefix ==
            IF LineSet(m) /\ ColumnSet(m)
            THEN <<"[">> \o toString10(m.lastLine) \o <<":">> \o toString10(m.lastColumn) \o <<"]", " ">>
            ELSE IF LineSet(m) THEN <<"[">> \o toString10(m.lastLine) \o <<"]", " ">>
            ELSE IF ColumnSet(m) THEN <<"[", ":">> \o toString10(m.lastColumn) \o <<"]", " ">>
            ELSE <<>>
        kind == IF Has(m, "subType") THEN m.subType ELSE m.type
    IN prefix \o <<kind, ":", " ", m.message>>

\* a newline, two spaces and the summary, for each message from the k-th on
RECURSIVE ExpectedLines(_, _)
ExpectedLines(ms, k) ==
    IF k > Len(ms) THEN <<>>
    ELSE <<"\n", " ", " ">> \o ExpectedSummary(ms[k]) \o ExpectedLines(ms, k + 1)

(* C17: htmlValidatorMessagesToString gives " no results" for an absent or *)
(* empty list, a space and the summary for one message, and for two or     *)
(* more a newline, two spaces and the summary for each message in input    *)
(* order; a summary is the position prefix ("[line:col] ", "[line] ",      *)
(* "[:col] " or nothing; a lastLine or lastColumn of 0 counts as not set), *)
(* the subType or else the type, ": " and the text.                        *)
C17_StringLayout ==
    pureDone =>
        /\ Len(PureMessages) = 0 => pureOut = <<" no results">>
        /\ Len(PureMessages) = 1 => pureOut = <<" ">> \o ExpectedSummary(PureMessages[1])
        /\ Len(PureMessages) >= 2 => pureOut = ExpectedLines(PureMessages, 1)

C17_Witness ==
    /\ pureDone
    /\ Len(PureMessages) = 2
    /\ pureOut = <<"\n", " ", " ", "[", ":", "4", "]", " ", "warning", ":", " ", "what?",
                   "\n", " ", " ", "[", "1", "2", "]", " ", "error", ":", " ", "huh?">>

(* C18: the earliest htmlValidatorMessagesToReviewComments drops every     *)
(* message of type "info", whatever its subType, gives one comment per     *)
(* other message in input order, and copies offset, lineFrom1 and          *)
(* columnFrom1 from hiliteStart, lastLine and lastColumn whether or not    *)
(* the message has an extract.                                             *)
C18_EarliestDropsInfo ==
    pureDone =>
        LET nonInfo == {j \in DOMAIN pureIn.messages : pureIn.messages[j].type # "info"}
        IN /\ Len(pureOut) = Cardinality(nonInfo)
           /\ \A i \in DOMAIN pureOut :
                LET m == pureIn.messages[Nth(nonInfo, i)]
                    loc == pureOut[i].sourceLocation
                IN /\ pureOut[i].detail = m.message
                   /\ loc.path = pureIn.src
                   /\ SameProperty(loc, "offset", m, "hiliteStart")
                   /\ SameProperty(loc, "lineFrom1", m, "lastLine")
                   /\ SameProperty(loc, "columnFrom1", m, "lastColumn")

C18_Witness ==
    /\ pureDone
    /\ Len(pureIn.messages) = 2
    /\ pureIn.messages[1].type = "info" /\ IsWarning(pureIn.messages[1])
    /\ ~Has(pureIn.messages[2], "extract")
    /\ Len(pureOut) = 1
    /\ pureOut[1].sourceLocation = [path |-> ChockSvg, offset |-> 0, columnFrom1 |-> 1, lineFrom1 |-> 3]

----------------------------------------------------------------------------
(* Properties of the inspection *)

CountIn(seq, c) == Cardinality({i \in DOMAIN seq : seq[i] = c})

RECURSIVE CommentsOfDone(_)
CommentsOfDone(k) ==
    IF k = 0 THEN <<>>
    ELSE CommentsOfDone(k - 1) \o
         (IF rfiles[k].stage = "done" THEN rfiles[k].comments ELSE <<>>)

WalkStarted ==
    \E i \in DOMAIN rlog : rlog[i].line = "Running html-validator on <slug> at '<absPath>'"

WalkFailed ==
    \E i \in DOMAIN rlog :
        rlog[i].line = "Failed to run html-validator on <slug> at '<absPath>': <e>"

(* C11: when the processing of a file fails (its content, the validator    *)
(* or the conversion rejects) the failure is written to the progress log,  *)
(* every other file is still processed, the returned review holds the      *)
(* comments of the files that succeeded and none of the failed file, and   *)
(* the inspection resolves.                                                *)
C11_PerFileIsolation ==
    /\ \A k \in DOMAIN rfiles :
        /\ rfiles[k].stage # "rejected"
        /\ rfiles[k].stage = "failed" =>
             /\ rpc \in {"walking", "returned"}
             /\ \E i \in DOMAIN rlog :
                  rlog[i] = [line |-> "Failed to run html-validator on '<slug>/<sitePath>/<path>': <e>",
                             path |-> rarg.files[k], e |-> rfiles[k].error]
    /\ (\E k \in DOMAIN rfiles : rfiles[k].stage # "todo") => ~WalkFailed
    /\ (rpc = "returned" /\ WalkStarted /\ ~WalkFailed) =>
        \A k \in DOMAIN rfiles : rfiles[k].stage \in {"empty", "done", "failed"}
    /\ Len(review) = Len(CommentsOfDone(Len(rfiles)))
    /\ \A i \in DOMAIN review : CountIn(review, review[i]) = CountIn(CommentsOfDone(Len(rfiles)), review[i])

C11_Witness ==
    /\ rpc = "returned"
    /\ Len(rfiles) = 2
    /\ rfiles[1].stage = "failed" /\ rfiles[1].error = "siteToSource failed"
    /\ rfiles[2].stage = "done" /\ Len(review) = 1
    /\ rlog[2].line = "Processing <path>..." /\ rlog[2].path = rarg.files[1]

----------------------------------------------------------------------------
(* Properties of the invocations of siteToSource *)

\* nothing has been awaited to completion yet: no remap promise has settled
\* and no callback has resumed
NothingAwaited ==
    /\ resumed = 0
    /\ \A i \in DOMAIN remaps : remaps[i].state = "pending"

(* C21: once the call has run its synchronous part, siteToSource has been  *)
(* invoked exactly once for each message the filter retains and for no     *)
(* other message, the i-th invocation has the site location of the i-th    *)
(* retained message of the input, and all of this is so before any remap   *)
(* settles or any callback resumes: no invocation waits for another.       *)
C21_RemapInvocations ==
    /\ ~Called => calls = <<>>
    /\ Called =>
        /\ Len(calls) = Cardinality(Indices(Accepted))
        /\ Len(remaps) = Len(calls)
        /\ \A i \in DOMAIN calls :
            /\ calls[i].location = createSourceLocation(arg.path, Messages[NthAccepted(i)])
            /\ calls[i].project = arg.project

C21_Witness ==
    /\ pc = "pending"
    /\ arg.siteToSource = "custom"
    /\ Len(arg.messages) = 3
    /\ IsPlainInfo(arg.messages[2])
    /\ Len(calls) = 2
    /\ calls[1].location # calls[2].location
    /\ NothingAwaited

----------------------------------------------------------------------------
(* Properties of the two revisions *)

BothAnswered == pc = "fulfilled" /\ pureDone

\* the positions in the answer of the synchronous revision whose message
\* is not a parse error of a type other than info
NotParseErrorPositions ==
    {i \in DOMAIN pureOut : ~IsParseError(Messages[Nth(Indices(LAMBDA m : ~IsPlainInfo(m)), i)])}

(* C22: given the same path and messages, the canonical call with the      *)
(* identity siteToSource resolves to the list the synchronous revision     *)
(* returns when no message of a type other than info has the text          *)
(* "Parse Error."; otherwise it resolves to that list without the          *)
(* comments of those messages, the rest unchanged and in the same order.   *)
C22_RevisionEquivalence ==
    BothAnswered =>
        /\ Indices(IsParseError) = {} => result = pureOut
        /\ Len(result) = Cardinality(NotParseErrorPositions)
        /\ \A k \in DOMAIN result : result[k] = pureOut[Nth(NotParseErrorPositions, k)]

C22_Witness ==
    /\ BothAnswered
    /\ Indices(IsParseError) = {}
    /\ \E j \in DOMAIN Messages :
        /\ Messages[j].type = "info" /\ IsWarning(Messages[j])
        /\ Messages[j].message = "Parse Error."
        /\ hasLocation(Messages[j])
    /\ Len(result) = 2
    /\ Len(Messages) = 2
    /\ result = pureOut

====
